---- MODULE Spec2Model ----
(***************************************************************************)
(* Model of the job-application intake of NexusAI (src/app.py): start-up   *)
(* schema creation (init_db), the per-client submission limiter, the form  *)
(* validator (ApplicationForm) and the POST /apply handler (apply).        *)
(*                                                                         *)
(* Text values are sequences of one-character strings, so that strip(),    *)
(* len(), rsplit(".", 1) and lower() are computed as Python computes them. *)
(* Requests are modelled with a valid CSRF token and a body within         *)
(* MAX_CONTENT_LENGTH; both checks sit in front of apply() and touch       *)
(* neither the upload folder nor the database.                             *)
(***************************************************************************)
EXTENDS Integers, Sequences, FiniteSets, TLC

(***************************************************************************)
(* Bounds of the model.                                                    *)
(***************************************************************************)
\* clock ticks in one hour (the limiter's period)
TicksPerHour == 2
\* the last tick of the clock
MaxTime == 2
\* requests in flight at the same time (worker threads)
MaxReq == 2
\* rows the applications table may hold before the model stops inserting
MaxRows == 2
\* submissions one client sends within one limiter window
MaxBurst == 7
\* submissions served while all workers run at once
MaxSubmissions == 3

(***************************************************************************)
(* Program constants.                                                      *)
(***************************************************************************)
\* @limiter.limit("6 per hour")
ApplyLimit == 6
\* NumberRange(min=0, max=60)
ExperienceMin == 0
ExperienceMax == 60
\* Length(max=...)
FullNameMax == 120
PhoneMax == 30
LocationMax == 100
CoverLetterMax == 4000

ALLOWED_EXTENSIONS == { <<"p","d","f">>, <<"d","o","c">>, <<"d","o","c","x">> }

ALLOWED_MIMETYPES ==
    { "application/pdf",
      "application/msword",
      "application/vnd.openxmlformats-officedocument.wordprocessingml.document" }

\* form.position.choices as careers() assigns them (values only)
CareersChoices == { "", "Senior Full-Stack Developer", "Junior Developer" }

\* the positions on offer: the choices without the "Select Position" placeholder
Positions == CareersChoices \ { "" }

\* a SelectField built without choices= has choices None
NoChoices == { "<None>" }

(***************************************************************************)
(* Python string operations on sequences of characters.                    *)
(***************************************************************************)
RECURSIVE LStrip(_)
LStrip(s) == IF s # <<>> /\ Head(s) = " " THEN LStrip(Tail(s)) ELSE s

RECURSIVE RStrip(_)
RStrip(s) ==
    IF s # <<>> /\ s[Len(s)] = " " THEN RStrip(SubSeq(s, 1, Len(s) - 1)) ELSE s

\* str.strip()
Strip(s) == RStrip(LStrip(s))

\* c in s
Contains(s, c) == \E i \in 1..Len(s) : s[i] = c

\* index of the last occurrence of c in s, 0 when there is none
LastIndex(s, c) ==
    IF Contains(s, c)
    THEN CHOOSE i \in 1..Len(s) : s[i] = c /\ \A j \in (i+1)..Len(s) : s[j] # c
    ELSE 0

\* s.rsplit(c, 1)[1], for s that contains c
RSplitLast(s, c) == SubSeq(s, LastIndex(s, c) + 1, Len(s))

LowerChar(c) ==
    CASE c = "P" -> "p" [] c = "D" -> "d" [] c = "F" -> "f"
      [] c = "O" -> "o" [] c = "C" -> "c" [] c = "X" -> "x"
      [] c = "E" -> "e" [] OTHER -> c

\* str.lower()
Lower(s) == [i \in 1..Len(s) |-> LowerChar(s[i])]

\* a string of n characters
Rep(n) == [i \in 1..n |-> "a"]

(***************************************************************************)
(* The submitted form.  A text field is a sequence of characters, absent   *)
(* fields are empty.  experience is the raw form value: absent, text that  *)
(* int() rejects, or the decimal notation of an integer.  cv is the        *)
(* uploaded file: its original name and the media type libmagic detects    *)
(* in its first 1024 bytes; no file is the empty name.                     *)
(***************************************************************************)
RawAbsent == [kind |-> "absent", val |-> 0]
RawText == [kind |-> "text", val |-> 0]
RawInt(n) == [kind |-> "int", val |-> n]

NoFile == [filename |-> <<>>, mime |-> ""]

\* int(valuelist[0]) of IntegerField.process_formdata: data is None on ValueError
IntegerData(raw) ==
    IF raw.kind = "int" THEN [none |-> FALSE, val |-> raw.val]
    ELSE [none |-> TRUE, val |-> 0]

(***************************************************************************)
(* The validators of wtforms, as ApplicationForm chains them.  Each field  *)
(* validator yields the field's list of error messages.  DataRequired      *)
(* clears the errors collected so far and stops the chain.                 *)
(***************************************************************************)
\* DataRequired on a string field: field.data and field.data.strip()
DataRequired(s) == Strip(s) # <<>>

\* DataRequired on IntegerField: "if field.data" -- None and 0 are both falsy
DataRequiredInt(d) == ~d.none /\ d.val # 0

\* NumberRange(min=0, max=60)
NumberRange(d) == ~d.none /\ d.val >= ExperienceMin /\ d.val <= ExperienceMax

\* Length(max=n), on the data as submitted (not stripped)
LengthOk(s, n) == Len(s) <= n

\* Email(): one "@", a local part, and a dotted domain
Email(s) ==
    /\ Cardinality({i \in 1..Len(s) : s[i] = "@"}) = 1
    /\ LET at == LastIndex(s, "@")
           dom == SubSeq(s, at + 1, Len(s))
       IN /\ at > 1
          /\ Contains(dom, ".")
          /\ dom[1] # "."
          /\ dom[Len(dom)] # "."
    /\ ~Contains(s, " ")

\* SelectField.pre_validate followed by DataRequired(message=...)
PositionErrors(choices, data) ==
    IF data = "" THEN <<"Please select a position">>
    ELSE IF data \notin choices THEN <<"Not a valid choice.">>
    ELSE <<>>

\* StringField with DataRequired(), Length(max=n)
TextErrors(s, n) ==
    IF ~DataRequired(s) THEN <<"This field is required.">>
    ELSE IF ~LengthOk(s, n)
         THEN <<"Field cannot be longer than max characters.">>
         ELSE <<>>

\* StringField with DataRequired(), Email()
EmailErrors(s) ==
    IF ~DataRequired(s) THEN <<"This field is required.">>
    ELSE IF ~Email(s) THEN <<"Invalid email address.">>
    ELSE <<>>

\* IntegerField with DataRequired(), NumberRange(min=0, max=60)
ExperienceErrors(raw) ==
    LET d == IntegerData(raw)
    IN IF ~DataRequiredInt(d) THEN <<"This field is required.">>
       ELSE IF ~NumberRange(d) THEN <<"Number must be between 0 and 60.">>
       ELSE <<>>

\* StringField with DataRequired()
ConsentErrors(s) ==
    IF s = "" THEN <<"This field is required.">> ELSE <<>>

\* ApplicationForm.validate_cv: the message of the ValueError it raises, or <<>>
validate_cv(cv) ==
    IF cv.filename = <<>> THEN <<>>
    ELSE IF \/ ~Contains(cv.filename, ".")
            \/ Lower(RSplitLast(cv.filename, ".")) \notin ALLOWED_EXTENSIONS
         THEN <<"Only PDF, DOC, DOCX allowed">>
         ELSE IF cv.mime \notin ALLOWED_MIMETYPES
              THEN <<"Invalid file content">>
              ELSE <<>>

FieldNames ==
    << "position", "full_name", "email", "phone", "location",
       "experience", "cover_letter", "cv", "consent" >>

\* form.errors once every field has been validated: field name -> messages
FormErrors(choices, f) ==
    [ position     |-> PositionErrors(choices, f.position),
      full_name    |-> TextErrors(f.full_name, FullNameMax),
      email        |-> EmailErrors(f.email),
      phone        |-> TextErrors(f.phone, PhoneMax),
      location     |-> TextErrors(f.location, LocationMax),
      experience   |-> ExperienceErrors(f.experience),
      cover_letter |-> TextErrors(f.cover_letter, CoverLetterMax),
      cv           |-> validate_cv(f.cv),
      consent      |-> ConsentErrors(f.consent) ]

NoErrors == [n \in {FieldNames[i] : i \in 1..Len(FieldNames)} |-> <<>>]

(***************************************************************************)
(* form.validate_on_submit() for a POST.  Fields are validated in the      *)
(* order of declaration.  The position field comes first: pre_validate of  *)
(* a SelectField whose choices are None raises TypeError, which no caller  *)
(* catches.  The ValueError of validate_cv is recorded as a field error by *)
(* wtforms 2 (catches) and leaves validate() as an exception in wtforms 3. *)
(* Result: raised names the exception that left validate(), "" for none.   *)
(***************************************************************************)
validate_on_submit(choices, catches, f) ==
    IF choices = NoChoices
    THEN [raised |-> "TypeError", errors |-> NoErrors]
    ELSE IF validate_cv(f.cv) # <<>> /\ ~catches
         THEN [raised |-> "ValueError", errors |-> NoErrors]
         ELSE [raised |-> "", errors |-> FormErrors(choices, f)]

\* the messages apply() flashes for a form that did not validate
Flashes(errors) ==
    UNION { { <<n, errors[n][i]>> : i \in 1..Len(errors[n]) } : n \in DOMAIN errors }

(***************************************************************************)
(* The submissions the clients send.                                       *)
(***************************************************************************)
\* the scenario of the specification: Jane Doe applies as Junior Developer
ValidForm ==
    [ position     |-> "Junior Developer",
      full_name    |-> <<"J","a","n","e"," ","D","o","e">>,
      email        |-> <<"j","a","n","e","@","x",".","c","o","m">>,
      phone        |-> <<"5","5","5","-","1","2","3","4">>,
      location     |-> <<"B","e","r","l","i","n">>,
      experience   |-> RawInt(3),
      cover_letter |-> <<".",".",".">>,
      cv           |-> NoFile,
      consent      |-> "on" ]

EmptyForm ==
    [ position |-> "", full_name |-> <<>>, email |-> <<>>, phone |-> <<>>,
      location |-> <<>>, experience |-> RawAbsent, cover_letter |-> <<>>,
      cv |-> NoFile, consent |-> "" ]

PdfMime == "application/pdf"
ExeMime == "application/x-dosexec"

ResumePdf == [filename |-> <<"r",".","p","d","f">>, mime |-> PdfMime]
ResumeUpperPdf == [filename |-> <<"r",".","P","D","F">>, mime |-> PdfMime]
ResumeExe == [filename |-> <<"r",".","e","x","e">>, mime |-> ExeMime]
ResumeNoExt == [filename |-> <<"r">>, mime |-> PdfMime]
\* an executable renamed to .pdf
ResumeFakePdf == [filename |-> <<"r",".","p","d","f">>, mime |-> ExeMime]

\* submissions that differ from ValidForm in the experience field only
ExperienceForms ==
    { [ValidForm EXCEPT !.experience = e] :
        e \in { RawInt(n) : n \in {-1, 0, 1, ExperienceMax, ExperienceMax + 1} }
              \cup { RawText, RawAbsent } }

\* submissions that differ from ValidForm in the consent field only
ConsentForms == { [ValidForm EXCEPT !.consent = c] : c \in { "", "yes" } }

\* submissions that differ from ValidForm in the position field only
PositionForms ==
    { [ValidForm EXCEPT !.position = p] :
        p \in { "", "Intern", "Senior Full-Stack Developer" } }

\* submissions that differ from ValidForm in the uploaded file only
CvForms ==
    { [ValidForm EXCEPT !.cv = c] :
        c \in { ResumePdf, ResumeUpperPdf, ResumeExe, ResumeNoExt, ResumeFakePdf } }

\* submissions with required fields missing, blank or too long
MissingForms ==
    { [ValidForm EXCEPT !.full_name = <<>>],
      [ValidForm EXCEPT !.full_name = <<" ">>],
      [ValidForm EXCEPT !.full_name = Rep(FullNameMax + 1)],
      [ValidForm EXCEPT !.email = <<"j","a","n","e">>],
      [ValidForm EXCEPT !.email = <<>>, !.phone = <<>>, !.consent = ""],
      [ValidForm EXCEPT !.location = <<>>, !.cover_letter = <<>>,
                        !.experience = RawAbsent, !.position = ""],
      [ValidForm EXCEPT !.full_name = <<>>, !.cv = ResumeExe],
      EmptyForm }

AllForms ==
    {ValidForm} \cup ExperienceForms \cup ConsentForms \cup PositionForms
        \cup CvForms \cup MissingForms

(***************************************************************************)
(* State.                                                                  *)
(***************************************************************************)
VARIABLES
    clock,      \* the wall clock, in ticks
    phase,      \* the server process: "down", "creating" (inside init_db), "running"
    dbFile,     \* os.path.exists(DB_FILE)
    table,      \* the applications table exists in the database
    rows,       \* the rows of applications, in insertion order
    seq,        \* sqlite_sequence: the largest id AUTOINCREMENT has handed out
    uploads,    \* the names of the files in UPLOAD_FOLDER
    uuids,      \* how many uuid4() values have been drawn
    choices,    \* position.choices of the ApplicationForm apply() builds
    catches,    \* the installed wtforms records a validator's ValueError as a field error
    hits,       \* the limiter's memory storage: client -> counter and its expiry
    reached,    \* history: client -> tick -> requests that got past the limiter
    req         \* the requests in flight, one per worker; besides the request's
                \* position (pc), form and locals, history: nth, the limiter's count
                \* at arrival; validated; saved, the files it wrote; rowid, its row

vars ==
    << clock, phase, dbFile, table, rows, seq, uploads, uuids, choices, catches,
       hits, reached, req >>

Clients == { "10.0.0.1", "10.0.0.2" }
Req == 1..MaxReq
Ticks == 0..MaxTime

\* cv_filename of a submission without a file (NULL)
NoName == [token |-> 0, ext |-> <<>>]

IdleReq ==
    [ pc |-> "idle", client |-> "", form |-> EmptyForm, outcome |-> "",
      flashes |-> {}, cv_filename |-> NoName, ts |-> 0, rowid |-> 0,
      saved |-> {}, validated |-> FALSE, nth |-> 0 ]

\* the limiter's counter of a client with no hits on record
NoHits == [count |-> 0, expiry |-> 0]

\* the sum of f over the set S
RECURSIVE SumOver(_, _)
SumOver(f, S) ==
    IF S = {} THEN 0
    ELSE LET t == CHOOSE x \in S : TRUE IN f[t] + SumOver(f, S \ {t})

\* the requests of client c that got past the limiter so far
Passed(c) == SumOver(reached[c], Ticks)

(***************************************************************************)
(* Start-up: init_db() runs once when the module is loaded.                *)
(***************************************************************************)
\* init_db, lines 66-70: the file is looked for; sqlite3.connect creates it
InitDbBegin ==
    /\ phase = "down"
    /\ IF dbFile
       THEN phase' = "running" /\ dbFile' = dbFile
       ELSE phase' = "creating" /\ dbFile' = TRUE
    /\ UNCHANGED << clock, table, rows, seq, uploads, uuids, choices, catches,
                    hits, reached, req >>

\* init_db, lines 71-90: CREATE TABLE applications, commit, close
InitDbCreate ==
    /\ phase = "creating"
    /\ table' = TRUE
    /\ phase' = "running"
    /\ UNCHANGED << clock, dbFile, rows, seq, uploads, uuids, choices, catches,
                    hits, reached, req >>

\* the process is killed inside init_db, after connect and before CREATE TABLE
InitDbInterrupted ==
    /\ phase = "creating"
    /\ phase' = "down"
    /\ UNCHANGED << clock, dbFile, table, rows, seq, uploads, uuids, choices,
                    catches, hits, reached, req >>

(***************************************************************************)
(* Time.                                                                   *)
(***************************************************************************)
Tick ==
    /\ clock < MaxTime
    /\ clock' = clock + 1
    /\ UNCHANGED << phase, dbFile, table, rows, seq, uploads, uuids, choices,
                    catches, hits, reached, req >>

(***************************************************************************)
(* The limiter: @limiter.limit("6 per hour") keyed by get_remote_address,  *)
(* fixed-window strategy over memory storage.  A counter whose expiry has  *)
(* passed is dropped; every hit increments the counter, the first hit of a *)
(* counter sets its expiry one period ahead; the hit is allowed while the  *)
(* counter does not exceed the limit.                                      *)
(***************************************************************************)
Hit(h, now) ==
    LET current == IF h.expiry <= now THEN 0 ELSE h.count
    IN [ count  |-> current + 1,
         expiry |-> IF current = 0 THEN now + TicksPerHour ELSE h.expiry ]

\* the comparison of Allowed off by one: a 7th hit of a window is let through
AllowedOffByOne(h) == h.count <= ApplyLimit + 1

Allowed(h) == h.count <= ApplyLimit

(***************************************************************************)
(* POST /apply.                                                            *)
(***************************************************************************)
\* the request arrives at worker r; the limiter runs before the view
Arrive(r, c, f) ==
    /\ phase = "running"
    /\ req[r].pc = "idle"
    /\ LET h == Hit(hits[c], clock)
       IN /\ h.count <= MaxBurst
          /\ hits' = [hits EXCEPT ![c] = h]
          /\ IF Allowed(h)
             THEN /\ req' = [req EXCEPT ![r] =
                               [IdleReq EXCEPT !.pc = "validate", !.client = c,
                                               !.form = f, !.nth = h.count]]
                  /\ reached' = [reached EXCEPT ![c][clock] = @ + 1]
             ELSE /\ req' = [req EXCEPT ![r] =
                               [IdleReq EXCEPT !.pc = "done", !.client = c,
                                               !.form = f, !.nth = h.count,
                                               !.outcome = "RateLimited"]]
                  /\ reached' = reached
    /\ UNCHANGED << clock, phase, dbFile, table, rows, seq, uploads, uuids,
                    choices, catches >>

\* apply, lines 156-162: the form is built and validated
Validate(r) ==
    /\ req[r].pc = "validate"
    /\ LET v == validate_on_submit(choices, catches, req[r].form)
       IN req' = [req EXCEPT ![r] =
            IF v.raised # ""
            THEN [@ EXCEPT !.pc = "done", !.validated = TRUE,
                           !.outcome = "ServerError"]
            ELSE IF Flashes(v.errors) # {}
                 THEN [@ EXCEPT !.pc = "done", !.validated = TRUE,
                                !.outcome = "Rejected",
                                !.flashes = Flashes(v.errors)]
                 ELSE [@ EXCEPT !.validated = TRUE,
                                !.pc = IF req[r].form.cv.filename # <<>>
                                       THEN "save" ELSE "connect"]]
    /\ UNCHANGED << clock, phase, dbFile, table, rows, seq, uploads, uuids,
                    choices, catches, hits, reached >>

\* the name apply() gives the uploaded file: uuid4().hex, ".", the extension
GeneratedName(n, filename) ==
    [token |-> n, ext |-> Lower(RSplitLast(filename, "."))]

\* apply, lines 165-172: the file is saved under a generated name
SaveFile(r) ==
    /\ req[r].pc = "save"
    /\ LET name == GeneratedName(uuids + 1, req[r].form.cv.filename)
       IN /\ uuids' = uuids + 1
          /\ uploads' = uploads \cup {name}
          /\ req' = [req EXCEPT ![r] =
                       [@ EXCEPT !.pc = "connect", !.cv_filename = name,
                                 !.saved = @ \cup {name}]]
    /\ UNCHANGED << clock, phase, dbFile, table, rows, seq, choices, catches,
                    hits, reached >>

\* cv_file.save raises (disk full, folder not writable): the exception leaves
\* apply(); the file opened for writing may be left behind, incomplete
SaveFileFails(r) ==
    /\ req[r].pc = "save"
    /\ LET name == GeneratedName(uuids + 1, req[r].form.cv.filename)
       IN /\ uuids' = uuids + 1
          /\ \E left \in BOOLEAN :
               /\ uploads' = IF left THEN uploads \cup {name} ELSE uploads
               /\ req' = [req EXCEPT ![r] =
                            [@ EXCEPT !.pc = "done", !.outcome = "ServerError",
                                      !.cv_filename = name,
                                      !.saved = IF left THEN @ \cup {name} ELSE @]]
    /\ UNCHANGED << clock, phase, dbFile, table, rows, seq, choices, catches,
                    hits, reached >>

\* apply, lines 176-196: sqlite3.connect (creates a missing file) and the
\* parameters of the INSERT, datetime.now() among them
Connect(r) ==
    /\ req[r].pc = "connect"
    /\ dbFile' = TRUE
    /\ req' = [req EXCEPT ![r] = [@ EXCEPT !.pc = "insert", !.ts = clock]]
    /\ UNCHANGED << clock, phase, table, rows, seq, uploads, uuids, choices,
                    catches, hits, reached >>

\* the row apply() inserts for request q under AUTOINCREMENT id n
NewRow(q, n) ==
    [ id               |-> n,
      position         |-> q.form.position,
      full_name        |-> Strip(q.form.full_name),
      email            |-> Strip(q.form.email),
      phone            |-> Strip(q.form.phone),
      location         |-> Strip(q.form.location),
      experience_years |-> IntegerData(q.form.experience).val,
      cover_letter     |-> Strip(q.form.cover_letter),
      cv_filename      |-> q.cv_filename,
      consent_given    |-> IF q.form.consent = "on" THEN 1 ELSE 0,
      submitted_at     |-> q.ts ]

\* apply, lines 178-202: INSERT and commit succeed
Insert(r) ==
    /\ req[r].pc = "insert"
    /\ table
    /\ Len(rows) < MaxRows
    /\ seq' = seq + 1
    /\ rows' = Append(rows, NewRow(req[r], seq + 1))
    /\ req' = [req EXCEPT ![r] =
                 [@ EXCEPT !.pc = "done", !.outcome = "Succeeded",
                           !.rowid = seq + 1,
                           !.flashes = {<<"success", "Application submitted">>}]]
    /\ UNCHANGED << clock, phase, dbFile, table, uploads, uuids, choices,
                    catches, hits, reached >>

\* apply, lines 204-206: the INSERT raises (no such table, database locked,
\* disk full); the exception is caught and a generic message is flashed
InsertFails(r) ==
    /\ req[r].pc = "insert"
    /\ req' = [req EXCEPT ![r] =
                 [@ EXCEPT !.pc = "done", !.outcome = "Failed",
                           !.flashes = {<<"error", "Sorry, something went wrong">>}]]
    /\ UNCHANGED << clock, phase, dbFile, table, rows, seq, uploads, uuids,
                    choices, catches, hits, reached >>

\* the response has been sent; the worker takes the next request
Respond(r) ==
    /\ req[r].pc = "done"
    /\ req' = [req EXCEPT ![r] = IdleReq]
    /\ UNCHANGED << clock, phase, dbFile, table, rows, seq, uploads, uuids,
                    choices, catches, hits, reached >>

(***************************************************************************)
(* Specifications.                                                         *)
(***************************************************************************)
\* the disk before start-up: no database, a database file without the table
\* (left by an interrupted init_db), or a database with the table
InitDisk ==
    /\ \E d \in { <<FALSE, FALSE>>, <<TRUE, FALSE>>, <<TRUE, TRUE>> } :
         dbFile = d[1] /\ table = d[2]
    /\ rows = <<>>
    /\ seq = 0
    /\ uploads = {}

InitProcess ==
    /\ clock = 0
    /\ phase = "down"
    /\ uuids = 0
    /\ catches \in BOOLEAN
    /\ hits = [c \in Clients |-> NoHits]
    /\ reached = [c \in Clients |-> [t \in Ticks |-> 0]]
    /\ req = [r \in Req |-> IdleReq]

\* the program as written: apply() builds its form without choices
Init ==
    /\ InitDisk
    /\ InitProcess
    /\ choices = NoChoices

Startup == InitDbBegin \/ InitDbCreate \/ InitDbInterrupted

\* the submissions sent to the program as written
SpecForms ==
    { ValidForm,
      [ValidForm EXCEPT !.position = "Intern"],
      [ValidForm EXCEPT !.full_name = <<>>],
      [ValidForm EXCEPT !.email = <<>>, !.phone = <<>>, !.consent = ""],
      EmptyForm }

\* start-up and one worker serving one client
Next ==
    \/ Startup
    \/ Tick
    \/ \E f \in SpecForms : Arrive(1, "10.0.0.1", f)
    \/ Validate(1)
    \/ Respond(1)

Spec == Init /\ [][Next]_vars

\* the program as written, running: two clients, valid and invalid submissions
InitLimiter ==
    /\ clock = 0
    /\ phase = "running"
    /\ dbFile = TRUE /\ table = TRUE /\ rows = <<>> /\ seq = 0 /\ uploads = {}
    /\ uuids = 0
    /\ catches = TRUE
    /\ hits = [c \in Clients |-> NoHits]
    /\ reached = [c \in Clients |-> [t \in Ticks |-> 0]]
    /\ req = [r \in Req |-> IdleReq]
    /\ choices = NoChoices

NextLimiter ==
    \/ Tick
    \/ \E f \in {ValidForm, EmptyForm} : Arrive(1, "10.0.0.1", f)
    \/ Arrive(1, "10.0.0.2", ValidForm)
    \/ Validate(1)
    \/ Respond(1)

SpecLimiter == InitLimiter /\ [][NextLimiter]_vars

(***************************************************************************)
(* apply() with the position choices in place.  As written, no request     *)
(* gets past Validate (TypeError): lines 164-206 never run.  To examine    *)
(* them, the specifications below give the form of apply() the choices     *)
(* careers() assigns, and nothing else is changed.                         *)
(***************************************************************************)
InitChoices ==
    /\ InitDisk
    /\ InitProcess
    /\ choices = CareersChoices

\* one worker, one client, one tick: every kind of submission
NextChoices ==
    \/ Startup
    \/ \E f \in AllForms : Arrive(1, "10.0.0.1", f)
    \/ Validate(1)
    \/ SaveFile(1)
    \/ SaveFileFails(1)
    \/ Connect(1)
    \/ Insert(1)
    \/ InsertFails(1)
    \/ Respond(1)

SpecChoices == InitChoices /\ [][NextChoices]_vars

\* all workers at once, while the clock ticks
ConcurrentForms == { ValidForm, [ValidForm EXCEPT !.cv = ResumePdf] }

NextConcurrent ==
    \/ Startup
    \/ Tick
    \/ \E r \in Req, f \in ConcurrentForms :
         Passed("10.0.0.1") < MaxSubmissions /\ Arrive(r, "10.0.0.1", f)
    \/ \E r \in Req : Validate(r)
    \/ \E r \in Req : SaveFile(r)
    \/ \E r \in Req : SaveFileFails(r)
    \/ \E r \in Req : Connect(r)
    \/ \E r \in Req : Insert(r)
    \/ \E r \in Req : InsertFails(r)
    \/ \E r \in Req : Respond(r)

SpecConcurrent == InitChoices /\ [][NextConcurrent]_vars

(***************************************************************************)
(* Vocabulary of the claims.                                               *)
(***************************************************************************)
\* request q has been answered
Done(q) == q.pc = "done"

\* request q got past the limiter and has been answered
Handled(q) == Done(q) /\ q.outcome # "RateLimited"

\* the validator accepted the submission of request q
Accepted(q) == q.outcome \in {"Succeeded", "Failed"}

\* the required fields the form leaves out
MissingFields(f) ==
    { n \in {"full_name", "email", "phone", "location", "cover_letter"} : f[n] = <<>> }
        \cup (IF f.position = "" THEN {"position"} ELSE {})
        \cup (IF f.consent = "" THEN {"consent"} ELSE {})
        \cup (IF f.experience.kind = "absent" THEN {"experience"} ELSE {})

\* the fields the flashed messages name
FlashedFields(q) == { m[1] : m \in q.flashes }

\* the ticks of the hour that starts at tick t
HourFrom(t) == { u \in Ticks : t <= u /\ u < t + TicksPerHour }

\* the ticks of the limiter window of counter h
WindowOf(h) == { u \in Ticks : h.expiry - TicksPerHour <= u /\ u < h.expiry }

(***************************************************************************)
(* C1.  Submission-rate ceiling.                                           *)
(***************************************************************************)
\* C1 as stated: for every client and every one-hour interval, at most 6 of the
\* client's POST /apply requests reach validation.
C1_SixInAnyHour ==
    \A c \in Clients, t \in Ticks :
        SumOver(reached[c], HourFrom(t)) <= ApplyLimit

\* C1 as amended: for every client, at most 6 requests of one limiter window (the
\* hour that opens with the client's first request after the previous window
\* ran out) reach validation, hence at most 12 of any one hour; a request that
\* is the 7th or later of its window is answered RateLimited and any earlier one
\* is not, whatever its payload; a rate-limited request runs no validation,
\* writes no file and inserts no row.
C1_SixPerLimiterWindow ==
    /\ \A c \in Clients :
         SumOver(reached[c], WindowOf(hits[c])) <= ApplyLimit
    /\ \A c \in Clients, t \in Ticks :
         SumOver(reached[c], HourFrom(t)) <= 2 * ApplyLimit
    /\ \A r \in Req :
         req[r].pc # "idle" =>
            /\ (req[r].nth > ApplyLimit) <=> (req[r].outcome = "RateLimited")
            /\ req[r].outcome = "RateLimited" =>
                 /\ Done(req[r])
                 /\ ~req[r].validated
                 /\ req[r].flashes = {}
                 /\ req[r].saved = {}
                 /\ req[r].rowid = 0

\* C1 witness: in the client's second window a valid submission is turned away
\* as the 7th, after 6 of that window and some of the first reached validation,
\* while the other client has been served too.
C1_Witness ==
    /\ clock >= TicksPerHour
    /\ req[1].outcome = "RateLimited"
    /\ req[1].form = ValidForm
    /\ req[1].client = "10.0.0.1"
    /\ hits["10.0.0.1"].expiry > clock
    /\ SumOver(reached["10.0.0.1"], WindowOf(hits["10.0.0.1"])) = ApplyLimit
    /\ Passed("10.0.0.1") > ApplyLimit
    /\ Passed("10.0.0.2") > 0

(***************************************************************************)
(* C2.  Missing required fields.                                           *)
(***************************************************************************)
\* C2 as stated: a handled submission that leaves out a required field inserts
\* no row, and the messages reported to the caller name every missing field.
C2_MissingFieldsReported ==
    \A r \in Req :
        Handled(req[r]) /\ MissingFields(req[r].form) # {} =>
            /\ req[r].rowid = 0
            /\ MissingFields(req[r].form) \subseteq FlashedFields(req[r])

(***************************************************************************)
(* C3.  One new row per valid submission.                                  *)
(***************************************************************************)
\* C3 as stated: after a valid submission has been handled, the table holds
\* exactly one row of that request, whose id is greater than the id of every
\* row inserted before it.
C3_OneRowPerValidSubmission ==
    \A r \in Req :
        Handled(req[r]) /\ req[r].form = ValidForm =>
            /\ req[r].rowid > 0
            /\ Cardinality({i \in 1..Len(rows) : rows[i].id = req[r].rowid}) = 1
            /\ \A i, j \in 1..Len(rows) : i < j => rows[i].id < rows[j].id

(***************************************************************************)
(* C7.  Position is one of the configured choices.                         *)
(***************************************************************************)
\* C7 as stated: a handled submission that is valid apart from its position is
\* accepted exactly when the position is one of the configured positions, a
\* rejected one inserts no row, and every stored position is a configured one.
C7_PositionEnumerated ==
    /\ \A r \in Req :
         Handled(req[r]) /\ [req[r].form EXCEPT !.position = ValidForm.position] = ValidForm =>
            /\ Accepted(req[r]) <=> req[r].form.position \in Positions
            /\ ~Accepted(req[r]) => req[r].rowid = 0
    /\ \A i \in 1..Len(rows) : rows[i].position \in Positions

(***************************************************************************)
(* C9.  init_db creates the table if absent.                               *)
(***************************************************************************)
\* C9 as stated: once init_db has completed, whatever the disk held before, the
\* applications table exists.
C9_TableAfterInitDb == phase = "running" => table

NamesStoredBy(q) ==
    { rows[i].cv_filename :
        i \in {k \in 1..Len(rows) : rows[k].id = q.rowid /\ rows[k].cv_filename # NoName} }

====
